---- MODULE Spec2Model ----
(***************************************************************************)
(* Model of the search query compiler and executor of package search      *)
(* (src/unnamed/part_000): the pagination guard checkParams, the seven    *)
(* entry points that compile a query document, and the executor doSearch. *)
(*                                                                         *)
(* One call is followed from its entry to its return.  An entry point is  *)
(* split where it calls a collaborator (ParseQuery, json.Marshal,         *)
(* escli.Search), so that the order of these calls can be stated.         *)
(* Go maps (map[string]interface{}) are functions over their keys, Go     *)
(* slices are sequences, a pointer or an optional value is a sequence of  *)
(* length 0 (nil) or 1.                                                   *)
(***************************************************************************)
EXTENDS Integers, Sequences, FiniteSets, TLC

VARIABLES pc, entry, req, guard, parseCalls, parsed, now, query, b, sent,
          searchErr, res, ret, gpc, gOffset, gSize, gErr, intSize

vars == <<pc, entry, req, guard, parseCalls, parsed, now, query, b, sent,
          searchErr, res, ret, gpc, gOffset, gSize, gErr, intSize>>

callVars == <<pc, entry, req, guard, parseCalls, parsed, now, query, b, sent,
              searchErr, res, ret>>

guardVars == <<gpc, gOffset, gSize, gErr, intSize>>

(***************************************************************************)
(* Bounds of the model.                                                    *)
(***************************************************************************)
\* instants are 0..MaxTime, in milliseconds
MaxTime == 1
\* facet lists (actors, tags, langs, following) have at most this length
MaxFacetLen == 1
\* zone offsets of time values are 0..MaxZone, in milliseconds
MaxZone == 1

(***************************************************************************)
(* Program constants.                                                      *)
(***************************************************************************)
\* the largest offset+size window and offset checkParams allows
MaxWindow == 10000
\* the largest page size checkParams allows
MaxSize == 250
\* the largest status code that Response.IsError does not report
MaxOkStatus == 299

Nil == <<>>

RECURSIVE SeqsUpTo(_, _)
SeqsUpTo(S, n) ==
  IF n = 0 THEN {<<>>}
  ELSE LET shorter == SeqsUpTo(S, n - 1)
       IN  shorter \cup {Append(s, x) : s \in shorter, x \in S}

(***************************************************************************)
(* The pagination guard.                                                   *)
(*                                                                         *)
(* Go's int is 32 or 64 bits wide, as the build decides (intSize).  A     *)
(* value of int is its two's complement representation: a sequence of     *)
(* 16-bit limbs, the least significant first, two limbs for 32 bits and   *)
(* four for 64.  Sums are taken limb by limb, so both widths wrap as Go   *)
(* does.                                                                   *)
(***************************************************************************)
\* the widths of int, in bits
IntWidths == {32, 64}

\* the number of values of a limb
Base == 256 * 256

Limbs(w) == w \div 16

\* the sign bit of x is set
IsNeg(x) == x[Len(x)] >= Base \div 2

\* ^x, the bitwise complement
Complement(x) == [i \in 1..Len(x) |-> (Base - 1) - x[i]]

\* the int of width w whose value is n, for n of at most 31 bits
IntOf(n, w) ==
  LET m == IF n < 0 THEN -(n + 1) ELSE n
      d == [i \in 1..Limbs(w) |->
              IF i = 1 THEN m % Base
              ELSE IF i = 2 THEN (m \div Base) % Base
              ELSE 0]
  IN  IF n < 0 THEN Complement(d) ELSE d

\* the least and the greatest int of width w
MinInt(w) ==
  [i \in 1..Limbs(w) |-> IF i = Limbs(w) THEN Base \div 2 ELSE 0]

MaxInt(w) == Complement(MinInt(w))

\* Go's + on int: the carries run through the limbs and the carry out of the
\* last limb is lost
AddInt(x, y) ==
  LET n == Len(x)
      carry[i \in 0..n] ==
        IF i = 0 THEN 0 ELSE (x[i] + y[i] + carry[i - 1]) \div Base
  IN  [i \in 1..n |-> (x[i] + y[i] + carry[i - 1]) % Base]

\* Go's > on int
GtInt(x, y) ==
  IF IsNeg(x) # IsNeg(y) THEN IsNeg(y)
  ELSE \E i \in 1..Len(x) :
         /\ x[i] > y[i]
         /\ \A j \in (i + 1)..Len(x) : x[j] = y[j]

\* a plausible slip: the window condition is left out
checkParams_NoWindow(offset, size) ==
  LET w == 16 * Len(offset)
  IN  \/ GtInt(size, IntOf(MaxSize, w))
      \/ GtInt(offset, IntOf(MaxWindow, w))
      \/ IsNeg(offset)
      \/ IsNeg(size)

\* TRUE when checkParams returns an error
checkParams(offset, size) ==
  LET w == 16 * Len(offset)
  IN  \/ GtInt(AddInt(offset, size), IntOf(MaxWindow, w))
      \/ GtInt(size, IntOf(MaxSize, w))
      \/ GtInt(offset, IntOf(MaxWindow, w))
      \/ IsNeg(offset)
      \/ IsNeg(size)

(***************************************************************************)
(* Time values and their formatting.                                       *)
(***************************************************************************)
\* a time.Time: the instant (ms since the epoch) and the zone offset of its
\* location (ms east of UTC)
Times == [ms : 0..MaxTime, off : 0..MaxZone]

\* t.UTC(): the same instant, in the UTC location
UTC(t) == [t EXCEPT !.off = 0]

\* t.Format(syntax.AtprotoDatetimeLayout), lines 105 and 109.  The layout of
\* package syntax is "2006-01-02T15:04:05.999Z": time.Format prints the wall
\* clock of t in t's own location, to the millisecond, and then the letter Z
\* as it stands (Z alone is no zone directive).  The text is represented by
\* the instant it denotes to its reader, who takes the Z for UTC: the instant
\* of t moved by the zone offset of t.  The code does not call UTC() first.
Format(t) == t.ms + t.off

\* syntax.DatetimeNow() at instant t
DatetimeNow(t) == Format(UTC(t))

(***************************************************************************)
(* Requests.                                                               *)
(***************************************************************************)
RawQueries == {"", "ali", "ali #go", "from:bob cats"}
Offsets == {-1, 0, 9999}
Sizes == {0, 2, 251}
OptTimes == {Nil} \cup {<<t>> : t \in Times}
ActorLists == SeqsUpTo({"did:plc:abc"}, MaxFacetLen)
TagLists == SeqsUpTo({"go"}, MaxFacetLen)
LangLists == SeqsUpTo({"en"}, MaxFacetLen)
FollowingLists == SeqsUpTo({"did:plc:x"}, MaxFacetLen)

\* type PostSearchQuery
PostSearchQuery ==
  [Query : RawQueries, Offset : Offsets, Size : Sizes, From : OptTimes,
   To : OptTimes, Actors : ActorLists, Tags : TagLists, Langs : LangLists]

\* type ActorSearchQuery
ActorSearchQuery ==
  [Query : RawQueries, Following : FollowingLists, Offset : Offsets,
   Size : Sizes]

\* the arguments (q, offset, size) of a plain entry point, as a record
PlainArgs(q, offset, size) == [Query |-> q, Offset |-> offset, Size |-> size]

(***************************************************************************)
(* The free-text normalizer ParseQuery: the results it may return for a    *)
(* raw string.  A handle that does not resolve stays literal text.         *)
(***************************************************************************)
ParseQuery(raw) ==
  CASE raw = "" -> {[queryStr |-> "*", filters |-> <<>>]}
    [] raw = "ali" -> {[queryStr |-> "ali", filters |-> <<>>]}
    [] raw = "ali #go" ->
         {[queryStr |-> "ali",
           filters |-> <<[term |-> [tag |-> "go"]]>>]}
    [] raw = "from:bob cats" ->
         {[queryStr |-> "cats",
           filters |-> <<[term |-> [did |-> "did:plc:bob"]]>>],
          [queryStr |-> "from:bob cats", filters |-> <<>>]}

(***************************************************************************)
(* The query documents.                                                    *)
(***************************************************************************)
\* m[k] = v on a Go map
MapSet(m, k, v) ==
  [x \in (DOMAIN m) \cup {k} |-> IF x = k THEN v ELSE m[x]]

\* the scoring clause "basic" of the post and profile shapes
basic(queryStr) ==
  [simple_query_string |->
     [query |-> queryStr,
      fields |-> <<"everything">>,
      flags |-> "AND|NOT|OR|PHRASE|PRECEDENCE|WHITESPACE",
      default_operator |-> "and",
      lenient |-> TRUE,
      analyze_wildcard |-> FALSE]]

\* a plausible slip: the handle field of the source's comment is switched on
multiMatch_WithHandle(q) ==
  [multi_match |->
     [query |-> q,
      type |-> "bool_prefix",
      operator |-> "and",
      fields |-> <<"handle^2", "typeahead", "typeahead._2gram",
                   "typeahead._3gram">>]]

\* the scoring clause of the typeahead shapes
multiMatch(q) ==
  [multi_match |->
     [query |-> q,
      type |-> "bool_prefix",
      operator |-> "and",
      fields |-> <<"typeahead", "typeahead._2gram", "typeahead._3gram">>]]

\* the two optional boost clauses of the profile shapes
shouldClauses ==
  <<[term |-> [has_avatar |-> TRUE]], [term |-> [has_banner |-> TRUE]]>>

createdAtSort == [created_at |-> [order |-> "desc"]]

pagerankSort == [pagerank |-> [order |-> "desc"]]

\* a terms filter over a facet list
termsFilter(field, values) == [terms |-> (field :> values)]

\* createdAtRange of DoStructuredSearchPosts
createdAtRange(q, t) ==
  LET r0 == [lte |-> DatetimeNow(t)]
      r1 == IF q.From # Nil THEN MapSet(r0, "gte", Format(q.From[1])) ELSE r0
  IN  IF q.To # Nil THEN MapSet(r1, "lte", Format(q.To[1])) ELSE r1

\* a plausible slip: the tag filter is appended before the actor filter
postFilters_TagFirst(q, p, t) ==
  p.filters
    \o <<[range |-> [created_at |-> createdAtRange(q, t)]]>>
    \o (IF Len(q.Tags) > 0 THEN <<termsFilter("tag", q.Tags)>> ELSE <<>>)
    \o (IF Len(q.Actors) > 0 THEN <<termsFilter("did", q.Actors)>> ELSE <<>>)
    \o (IF Len(q.Langs) > 0 THEN <<termsFilter("lang", q.Langs)>> ELSE <<>>)

\* the filter list of DoStructuredSearchPosts
postFilters(q, p, t) ==
  p.filters
    \o <<[range |-> [created_at |-> createdAtRange(q, t)]]>>
    \o (IF Len(q.Actors) > 0 THEN <<termsFilter("did", q.Actors)>> ELSE <<>>)
    \o (IF Len(q.Tags) > 0 THEN <<termsFilter("tag", q.Tags)>> ELSE <<>>)
    \o (IF Len(q.Langs) > 0 THEN <<termsFilter("lang", q.Langs)>> ELSE <<>>)

\* the document of DoStructuredSearchPosts
StructuredPostsQuery(q, p, t) ==
  [query |-> [bool |-> [must |-> basic(p.queryStr),
                        filter |-> postFilters(q, p, t)]],
   sort |-> createdAtSort,
   size |-> q.Size,
   from |-> q.Offset]

\* the document of DoSearchPosts
PostsQuery(q, p, t) ==
  [query |-> [bool |-> [must |-> basic(p.queryStr),
                        filter |-> p.filters \o
                          <<[range |-> [created_at |->
                                          [lte |-> DatetimeNow(t)]]]>>]],
   sort |-> createdAtSort,
   size |-> q.Size,
   from |-> q.Offset]

\* a plausible slip: the relevance query is not down-weighted
profileBool_FullBoost(queryStr, filters) ==
  [must |-> basic(queryStr),
   should |-> shouldClauses,
   minimum_should_match |-> 0,
   filter |-> filters,
   boost |-> 10]

\* the bool query of the two profile shapes; boost is in tenths (5 is 0.5)
profileBool(queryStr, filters) ==
  [must |-> basic(queryStr),
   should |-> shouldClauses,
   minimum_should_match |-> 0,
   filter |-> filters,
   boost |-> 5]

\* the document of DoSearchProfiles
ProfilesQuery(q, p) ==
  [query |-> [bool |-> profileBool(p.queryStr, p.filters)],
   size |-> q.Size,
   from |-> q.Offset,
   sort |-> pagerankSort]

\* the filter list of DoStructuredSearchProfiles
profileFilters(q, p) ==
  IF Len(q.Following) > 0
  THEN Append(p.filters, termsFilter("did", q.Following))
  ELSE p.filters

\* the document of DoStructuredSearchProfiles
StructuredProfilesQuery(q, p) ==
  [query |-> [bool |-> profileBool(p.queryStr, profileFilters(q, p))],
   size |-> q.Size,
   from |-> q.Offset,
   sort |-> pagerankSort]

\* the document of DoSearchProfilesTypeahead
TypeaheadQuery(q) ==
  [query |-> multiMatch(q.Query),
   size |-> q.Size,
   sort |-> pagerankSort]

\* the filter list of DoStructuredSearchProfilesTypeahead
typeaheadFilters(q) ==
  IF Len(q.Following) > 0 THEN <<termsFilter("did", q.Following)>> ELSE <<>>

\* a plausible slip: the following filter is made an optional clause
typeaheadBool_FilterInShould(q) ==
  [must |-> multiMatch(q.Query),
   should |-> typeaheadFilters(q),
   filter |-> <<>>]

\* the bool query of DoStructuredSearchProfilesTypeahead
typeaheadBool(q) ==
  [must |-> multiMatch(q.Query),
   filter |-> typeaheadFilters(q)]

\* the document of DoStructuredSearchProfilesTypeahead
StructuredTypeaheadQuery(q) ==
  [query |-> [bool |-> typeaheadBool(q)],
   size |-> q.Size,
   from |-> q.Offset,
   sort |-> pagerankSort]

\* the document of DoSearchGeneric
GenericQuery(q) ==
  [query |-> [query_string |->
                [query |-> q.Query,
                 default_operator |-> "and",
                 analyze_wildcard |-> TRUE,
                 allow_leading_wildcard |-> FALSE,
                 lenient |-> TRUE,
                 default_field |-> "everything"]]]

(***************************************************************************)
(* Results.                                                                *)
(***************************************************************************)
NoError == [kind |-> "none"]
InvalidParams == [kind |-> "InvalidParams"]
SerializationError == [kind |-> "Serialization"]
TransportError(cause) == [kind |-> "Transport", cause |-> cause]
BackendError(code) == [kind |-> "Backend", code |-> code]
DecodeError == [kind |-> "Decode"]

\* the pair (*EsSearchResponse, error) an entry point returns
Result(resp, err) == [resp |-> resp, err |-> err]

\* what escli.Search may return: an error with a cause, or a response with
\* a status code and a body that decodes into EsSearchResponse or does not
Causes == {"connection refused", "context canceled"}
StatusCodes == {101, 200, 299, 300, 404, 500}
Responses == [StatusCode : StatusCodes, decodable : BOOLEAN]

\* a plausible slip: only the 4xx and 5xx codes are reported
IsError_From400(r) == r.StatusCode > 399

\* res.IsError()
IsError(r) == r.StatusCode > MaxOkStatus

(***************************************************************************)
(* The state of one call.                                                  *)
(***************************************************************************)
Entries ==
  {"DoStructuredSearchPosts", "DoSearchPosts", "DoSearchProfiles",
   "DoStructuredSearchProfiles", "DoSearchProfilesTypeahead",
   "DoStructuredSearchProfilesTypeahead", "DoSearchGeneric"}

Idle ==
  /\ pc = "idle"
  /\ entry = "none"
  /\ req = Nil
  /\ guard = "none"
  /\ parseCalls = 0
  /\ parsed = Nil
  /\ now = Nil
  /\ query = Nil
  /\ b = Nil
  /\ sent = <<>>
  /\ searchErr = Nil
  /\ res = Nil
  /\ ret = Nil

GuardIdle ==
  /\ intSize \in IntWidths
  /\ gpc = "idle"
  /\ gOffset = IntOf(0, intSize)
  /\ gSize = IntOf(0, intSize)
  /\ gErr = FALSE

Init == GuardIdle /\ Idle

untouched == <<parseCalls, parsed, now, b, sent, searchErr, res>>

\* "if err := checkParams(...); err != nil { return nil, err }", then next
Guarded(e, q, next, doc) ==
  /\ pc = "idle"
  /\ entry' = e
  /\ req' = <<q>>
  /\ IF checkParams(IntOf(q.Offset, intSize), IntOf(q.Size, intSize))
     THEN /\ guard' = "rejected"
          /\ ret' = <<Result(Nil, InvalidParams)>>
          /\ query' = Nil
          /\ pc' = "done"
     ELSE /\ guard' = "accepted"
          /\ ret' = Nil
          /\ query' = doc
          /\ pc' = next
  /\ UNCHANGED untouched
  /\ UNCHANGED guardVars

(***************************************************************************)
(* The entry points, up to their first call of a collaborator.             *)
(***************************************************************************)
DoStructuredSearchPosts ==
  /\ pc = "idle"
  /\ \E q \in PostSearchQuery :
       Guarded("DoStructuredSearchPosts", q, "ParseQuery", Nil)

DoSearchPosts ==
  /\ pc = "idle"
  /\ \E q \in RawQueries, offset \in Offsets, size \in Sizes :
       Guarded("DoSearchPosts", PlainArgs(q, offset, size), "ParseQuery", Nil)

DoSearchProfiles ==
  /\ pc = "idle"
  /\ \E q \in RawQueries, offset \in Offsets, size \in Sizes :
       Guarded("DoSearchProfiles", PlainArgs(q, offset, size), "ParseQuery",
               Nil)

DoStructuredSearchProfiles ==
  /\ pc = "idle"
  /\ \E q \in ActorSearchQuery :
       Guarded("DoStructuredSearchProfiles", q, "ParseQuery", Nil)

\* a plausible slip: the guard of the plain typeahead is forgotten
DoSearchProfilesTypeahead_NoGuard ==
  /\ pc = "idle"
  /\ \E q \in RawQueries, size \in Sizes :
       /\ entry' = "DoSearchProfilesTypeahead"
       /\ req' = <<PlainArgs(q, 0, size)>>
       /\ query' = <<TypeaheadQuery(PlainArgs(q, 0, size))>>
       /\ pc' = "Marshal"
  /\ UNCHANGED <<guard, ret>>
  /\ UNCHANGED untouched
  /\ UNCHANGED guardVars

DoSearchProfilesTypeahead ==
  /\ pc = "idle"
  /\ \E q \in RawQueries, size \in Sizes :
       Guarded("DoSearchProfilesTypeahead", PlainArgs(q, 0, size), "Marshal",
               <<TypeaheadQuery(PlainArgs(q, 0, size))>>)

\* a plausible slip: the error of the guard is dropped
DoStructuredSearchProfilesTypeahead_ErrDropped ==
  /\ pc = "idle"
  /\ \E q \in ActorSearchQuery :
       /\ entry' = "DoStructuredSearchProfilesTypeahead"
       /\ req' = <<q>>
       /\ guard' = IF checkParams(IntOf(q.Offset, intSize),
                                  IntOf(q.Size, intSize))
                   THEN "rejected" ELSE "accepted"
       /\ ret' = Nil
       /\ query' = <<StructuredTypeaheadQuery(q)>>
       /\ pc' = "Marshal"
  /\ UNCHANGED untouched
  /\ UNCHANGED guardVars

DoStructuredSearchProfilesTypeahead ==
  /\ pc = "idle"
  /\ \E q \in ActorSearchQuery :
       Guarded("DoStructuredSearchProfilesTypeahead", q, "Marshal",
               <<StructuredTypeaheadQuery(q)>>)

DoSearchGeneric ==
  /\ pc = "idle"
  /\ \E q \in RawQueries :
       /\ entry' = "DoSearchGeneric"
       /\ req' = <<[Query |-> q]>>
       /\ query' = <<GenericQuery([Query |-> q])>>
       /\ pc' = "Marshal"
  /\ UNCHANGED <<guard, ret>>
  /\ UNCHANGED untouched
  /\ UNCHANGED guardVars

(***************************************************************************)
(* ParseQuery returns and the entry point compiles its document.           *)
(***************************************************************************)
\* the document an entry point builds from its request, the normalizer's
\* result p and the time t of its call of DatetimeNow
Compile(e, q, p, t) ==
  CASE e = "DoStructuredSearchPosts" -> StructuredPostsQuery(q, p, t)
    [] e = "DoSearchPosts" -> PostsQuery(q, p, t)
    [] e = "DoSearchProfiles" -> ProfilesQuery(q, p)
    [] e = "DoStructuredSearchProfiles" -> StructuredProfilesQuery(q, p)

PostEntries == {"DoStructuredSearchPosts", "DoSearchPosts"}

\* what time.Now() may return; its location does not matter, DatetimeNow
\* converts to UTC before it formats
Nows == {t \in Times : t.off = 0}

ParseQueryReturns ==
  /\ pc = "ParseQuery"
  /\ \E p \in ParseQuery(req[1].Query) :
       \E t \in IF entry \in PostEntries THEN {<<x>> : x \in Nows} ELSE {Nil} :
         /\ parsed' = <<p>>
         /\ now' = t
         /\ query' = <<Compile(entry, req[1], p,
                               IF t = Nil THEN [ms |-> 0, off |-> 0]
                               ELSE t[1])>>
  /\ parseCalls' = parseCalls + 1
  /\ pc' = "Marshal"
  /\ UNCHANGED <<entry, req, guard, b, sent, searchErr, res, ret>>
  /\ UNCHANGED guardVars

(***************************************************************************)
(* The executor doSearch.                                                  *)
(***************************************************************************)
\* json.Marshal(query): the wire form of the document, or an error
Marshal ==
  /\ pc = "Marshal"
  /\ \/ /\ b' = <<query[1]>>
        /\ pc' = "Search"
        /\ ret' = ret
     \/ /\ b' = Nil
        /\ pc' = "done"
        /\ ret' = <<Result(Nil, SerializationError)>>
  /\ UNCHANGED <<entry, req, guard, parseCalls, parsed, now, query, sent,
                 searchErr, res>>
  /\ UNCHANGED guardVars

\* a plausible slip: a failed request is submitted again
SearchFails_Retry ==
  /\ pc = "Search"
  /\ Len(sent) < 2
  /\ sent' = Append(sent, b[1])
  /\ \E cause \in Causes : searchErr' = <<cause>>
  /\ UNCHANGED <<pc, ret>>
  /\ UNCHANGED <<entry, req, guard, parseCalls, parsed, now, query, b, res>>
  /\ UNCHANGED guardVars

\* escli.Search submits the request and returns an error
SearchFails ==
  /\ pc = "Search"
  /\ sent' = Append(sent, b[1])
  /\ \E cause \in Causes :
       /\ searchErr' = <<cause>>
       /\ ret' = <<Result(Nil, TransportError(cause))>>
  /\ pc' = "done"
  /\ UNCHANGED <<entry, req, guard, parseCalls, parsed, now, query, b, res>>
  /\ UNCHANGED guardVars

\* escli.Search submits the request and returns a response
SearchResponds ==
  /\ pc = "Search"
  /\ sent' = Append(sent, b[1])
  /\ \E r \in Responses : res' = <<r>>
  /\ pc' = "Response"
  /\ UNCHANGED <<entry, req, guard, parseCalls, parsed, now, query, b,
                 searchErr, ret>>
  /\ UNCHANGED guardVars

\* the result doSearch returns for the response r
Outcome(r) ==
  IF IsError(r) THEN Result(Nil, BackendError(r.StatusCode))
  ELSE IF ~r.decodable THEN Result(Nil, DecodeError)
  ELSE Result(<<r>>, NoError)

\* doSearch from res.IsError() to its return
HandleResponse ==
  /\ pc = "Response"
  /\ ret' = <<Outcome(res[1])>>
  /\ pc' = "done"
  /\ UNCHANGED <<entry, req, guard, parseCalls, parsed, now, query, b, sent,
                 searchErr, res>>
  /\ UNCHANGED guardVars

\* the call has returned; the next call starts from nothing
Return ==
  /\ pc = "done"
  /\ pc' = "idle"
  /\ entry' = "none"
  /\ guard' = "none"
  /\ parseCalls' = 0
  /\ sent' = <<>>
  /\ req' = Nil /\ parsed' = Nil /\ now' = Nil /\ query' = Nil /\ b' = Nil
  /\ searchErr' = Nil /\ res' = Nil /\ ret' = Nil
  /\ UNCHANGED guardVars

Next ==
  \/ DoStructuredSearchPosts
  \/ DoSearchPosts
  \/ DoSearchProfiles
  \/ DoStructuredSearchProfiles
  \/ DoSearchProfilesTypeahead
  \/ DoStructuredSearchProfilesTypeahead
  \/ DoSearchGeneric
  \/ ParseQueryReturns
  \/ Marshal
  \/ SearchFails
  \/ SearchResponds
  \/ HandleResponse
  \/ Return

Spec == Init /\ [][Next]_vars

(***************************************************************************)
(* The pagination guard on its own, over the whole range of int.           *)
(***************************************************************************)
\* the values near the bounds of the guard
NearBounds ==
  {-10000, -1, 0, 1, 2, 249, 250, 251, 9750, 9751, 9999, 10000, 10001}

\* the powers of two at the limb boundaries of width w, and their negatives
LimbPowers(w) ==
  LET unit(k) == [i \in 1..Limbs(w) |-> IF i = k THEN 1 ELSE 0]
      minus(x) == AddInt(Complement(x), IntOf(1, w))
  IN  UNION {{unit(k), minus(unit(k))} : k \in 2..Limbs(w)}

\* the arguments the guard is tried on: the values near its bounds, the
\* extremes of int and the values near them, where offset+size wraps
GuardInputs(w) ==
  {IntOf(n, w) : n \in NearBounds}
    \cup LimbPowers(w)
    \cup {AddInt(MinInt(w), IntOf(n, w)) : n \in {0, 1}}
    \cup {AddInt(MaxInt(w), IntOf(n, w)) : n \in {-10000, -1, 0}}

CheckParamsCall ==
  /\ gpc = "idle"
  /\ \E offset \in GuardInputs(intSize), size \in GuardInputs(intSize) :
       /\ gOffset' = offset
       /\ gSize' = size
       /\ gErr' = checkParams(offset, size)
  /\ gpc' = "returned"
  /\ UNCHANGED intSize
  /\ UNCHANGED callVars

CheckParamsReturn ==
  /\ gpc = "returned"
  /\ gpc' = "idle"
  /\ gOffset' = IntOf(0, intSize)
  /\ gSize' = IntOf(0, intSize)
  /\ gErr' = FALSE
  /\ UNCHANGED intSize
  /\ UNCHANGED callVars

GuardNext ==
  \/ CheckParamsCall
  \/ CheckParamsReturn

GuardSpec == Init /\ [][GuardNext]_vars

(***************************************************************************)
(* Properties.                                                             *)
(***************************************************************************)
Range(f) == {f[i] : i \in DOMAIN f}

\* the pagination bounds as the specification states them
InBounds(offset, size) ==
  /\ 0 <= offset /\ offset <= 10000
  /\ 0 <= size /\ size <= 250
  /\ offset + size <= 10000

PaginatedEntries == Entries \ {"DoSearchGeneric"}

ProfileEntries == {"DoSearchProfiles", "DoStructuredSearchProfiles"}

BoolEntries ==
  PostEntries \cup ProfileEntries \cup {"DoStructuredSearchProfilesTypeahead"}

\* an optional field of the request is supplied
Supplied(q, f) == f \in DOMAIN q /\ q[f] # Nil

\* the compiled document and the request of the call
doc == query[1]
rq == req[1]

\* x is the int of a number of at most 31 bits and a sign
Fits(x) ==
  /\ \A i \in 3..Len(x) : x[i] = IF IsNeg(x) THEN Base - 1 ELSE 0
  /\ x[2] >= Base \div 2 <=> IsNeg(x)

\* the number that x, which fits, is the int of
NumberOf(x) ==
  IF IsNeg(x)
  THEN -(((Base - 1) - x[1]) + ((Base - 1) - x[2]) * Base) - 1
  ELSE x[1] + x[2] * Base

\* the pagination bounds on values of int: a value that does not fit in 31
\* bits is beyond every bound
InBoundsInt(offset, size) ==
  /\ Fits(offset) /\ Fits(size)
  /\ InBounds(NumberOf(offset), NumberOf(size))

\* C1: checkParams accepts a pair (offset, size) if and only if
\* 0 <= offset <= 10000, 0 <= size <= 250 and offset + size <= 10000.
C1_GuardAcceptsIffInBounds ==
  gpc = "returned" => (~gErr <=> InBoundsInt(gOffset, gSize))

\* C1 witness: the pair (9999, 2) has been rejected for its window alone.
C1_Witness ==
  /\ gpc = "returned"
  /\ gOffset = IntOf(9999, intSize)
  /\ gSize = IntOf(2, intSize)
  /\ gErr

\* C2 as stated: in every entry point, DoSearchGeneric included, the
\* normalizer is called and a request is submitted only after the guard has
\* accepted.
C2_GuardFirstEverywhere ==
  (parseCalls > 0 \/ sent # <<>>) => guard = "accepted"

\* C2 amended: in the six paginated entry points the normalizer is called
\* and a request is submitted only after the guard has accepted;
\* DoSearchGeneric has no pagination parameters and never evaluates the guard.
C2_GuardFirstWherePaginated ==
  /\ entry \in PaginatedEntries /\ pc \notin {"idle", "done"}
       => guard = "accepted"
  /\ entry \in PaginatedEntries /\ (parseCalls > 0 \/ sent # <<>>)
       => guard = "accepted"
  /\ entry = "DoSearchGeneric" => guard = "none"

\* C2 witness: the plain typeahead has submitted its request after the guard
\* accepted (0, size).
C2_Witness ==
  /\ entry = "DoSearchProfilesTypeahead"
  /\ guard = "accepted"
  /\ Len(sent) = 1

\* C3: a paginated call whose (offset, size) is out of bounds returns the
\* invalid-parameters error with a nil response, and has called no
\* normalizer, built no document and submitted no request.
C3_RejectedDoesNothing ==
  /\ entry \in PaginatedEntries /\ ~InBounds(rq.Offset, rq.Size)
       => guard = "rejected"
  /\ guard = "rejected"
       => /\ pc = "done"
          /\ ret = <<Result(Nil, InvalidParams)>>
          /\ parseCalls = 0
          /\ parsed = Nil
          /\ query = Nil
          /\ b = Nil
          /\ sent = <<>>

\* C3 witness: the structured typeahead has rejected an offset of -1.
C3_Witness ==
  /\ entry = "DoStructuredSearchProfilesTypeahead"
  /\ rq.Offset = -1
  /\ pc = "done"
  /\ guard = "rejected"

\* the instant of an optional time of the request
Instant(q, f) == q[f][1].ms

\* C4: a post document has exactly one created-time range filter; its upper
\* bound is always present and is the supplied `to`, or now when none is
\* supplied; its lower bound is present if and only if `from` is supplied,
\* and is then `from`.
C4_CreatedRange ==
  entry \in PostEntries /\ query # Nil =>
    LET fs == doc.query.bool.filter
        ranges == {i \in DOMAIN fs : "range" \in DOMAIN fs[i]}
    IN  /\ Cardinality(ranges) = 1
        /\ \A i \in ranges :
             LET r == fs[i].range.created_at
             IN  /\ "lte" \in DOMAIN r
                 /\ r.lte = IF Supplied(rq, "To") THEN Instant(rq, "To")
                            ELSE now[1].ms
                 /\ "gte" \in DOMAIN r <=> Supplied(rq, "From")
                 /\ Supplied(rq, "From") => r.gte = Instant(rq, "From")

\* the facets of a structured post request, in the order of their filters
Facets(q) == <<<<"did", q.Actors>>, <<"tag", q.Tags>>, <<"lang", q.Langs>>>>

NonEmptyFacet(f) == Len(f[2]) > 0

\* C5: the filter list of a structured post document is the normalizer's
\* filters, then the created-time range filter, then one terms filter for
\* each non-empty facet among actors, tags, langs, in that order.
C5_PostFilterOrder ==
  entry = "DoStructuredSearchPosts" /\ query # Nil =>
    LET fs == doc.query.bool.filter
        n == Len(parsed[1].filters)
        present == SelectSeq(Facets(rq), NonEmptyFacet)
    IN  /\ Len(fs) = n + 1 + Len(present)
        /\ SubSeq(fs, 1, n) = parsed[1].filters
        /\ DOMAIN fs[n + 1] = {"range"}
        /\ DOMAIN fs[n + 1].range = {"created_at"}
        /\ \A i \in 1..Len(present) :
             /\ DOMAIN fs[n + 1 + i] = {"terms"}
             /\ DOMAIN fs[n + 1 + i].terms = {present[i][1]}
             /\ fs[n + 1 + i].terms[present[i][1]] = present[i][2]

\* C5 witness: a document compiled for actors non-empty, tags and langs empty.
C5_Witness ==
  /\ entry = "DoStructuredSearchPosts"
  /\ query # Nil
  /\ rq.Actors = <<"did:plc:abc">>
  /\ rq.Tags = <<>>
  /\ rq.Langs = <<>>
  /\ Len(doc.query.bool.filter) = Len(parsed[1].filters) + 2

\* C6: a profile-relevance document has boost 0.5 (5 tenths),
\* minimum_should_match 0 and exactly the two should clauses has_avatar and
\* has_banner; the following set adds one terms filter to bool.filter, in the
\* structured variant only and only when it is non-empty.
C6_ProfileBoost ==
  entry \in ProfileEntries /\ query # Nil =>
    LET bl == doc.query.bool
        following == IF Supplied(rq, "Following") THEN rq.Following ELSE <<>>
    IN  /\ bl.boost = 5
        /\ bl.minimum_should_match = 0
        /\ Len(bl.should) = 2
        /\ bl.should[1] = [term |-> [has_avatar |-> TRUE]]
        /\ bl.should[2] = [term |-> [has_banner |-> TRUE]]
        /\ bl.filter = parsed[1].filters \o
             (IF following # <<>> THEN <<[terms |-> [did |-> following]]>>
              ELSE <<>>)

\* C6 witness: a structured profile document with normalizer filters and a
\* non-empty following set.
C6_Witness ==
  /\ entry = "DoStructuredSearchProfiles"
  /\ query # Nil
  /\ rq.Following # <<>>
  /\ parsed[1].filters # <<>>

\* the scoring clause of a typeahead document
TypeaheadScoring ==
  IF entry = "DoSearchProfilesTypeahead" THEN doc.query
  ELSE doc.query.bool.must

TypeaheadEntries ==
  {"DoSearchProfilesTypeahead", "DoStructuredSearchProfilesTypeahead"}

\* C7: the scoring clause of a typeahead document is a bool_prefix
\* multi-match over exactly typeahead, typeahead._2gram and typeahead._3gram
\* with operator and; the structured variant's filter list is one terms
\* filter over the following set when it is non-empty, and empty otherwise.
C7_Typeahead ==
  entry \in TypeaheadEntries /\ query # Nil =>
    /\ DOMAIN TypeaheadScoring = {"multi_match"}
    /\ TypeaheadScoring.multi_match.type = "bool_prefix"
    /\ TypeaheadScoring.multi_match.operator = "and"
    /\ TypeaheadScoring.multi_match.query = rq.Query
    /\ TypeaheadScoring.multi_match.fields =
         <<"typeahead", "typeahead._2gram", "typeahead._3gram">>
    /\ entry = "DoStructuredSearchProfilesTypeahead" =>
         doc.query.bool.filter =
           IF rq.Following # <<>> THEN <<[terms |-> [did |-> rq.Following]]>>
           ELSE <<>>

\* C7 witness: a structured typeahead document for "ali" with a following set.
C7_Witness ==
  /\ entry = "DoStructuredSearchProfilesTypeahead"
  /\ query # Nil
  /\ rq.Query = "ali"
  /\ rq.Following = <<"did:plc:x">>

ScoringKinds == {{"simple_query_string"}, {"multi_match"}, {"query_string"}}

\* the document wraps one scoring clause as the must of a bool query with a
\* filter list, and has a should list only in the profile shapes
BoolShaped ==
  /\ DOMAIN doc.query = {"bool"}
  /\ DOMAIN doc.query.bool.must \in ScoringKinds
  /\ "filter" \in DOMAIN doc.query.bool
  /\ "should" \in DOMAIN doc.query.bool <=> entry \in ProfileEntries
  /\ parsed # Nil => Range(parsed[1].filters) \subseteq
                       Range(doc.query.bool.filter)

\* C8 as stated: every entry point's document is a bool query with the
\* scoring clause as its sole must and the filters in its filter list, with
\* should only in the profile shapes.
C8_BoolEverywhere == query # Nil => BoolShaped

\* C8 amended: that holds of the five entry points DoSearchPosts,
\* DoStructuredSearchPosts, DoSearchProfiles, DoStructuredSearchProfiles and
\* DoStructuredSearchProfilesTypeahead; DoSearchProfilesTypeahead and
\* DoSearchGeneric emit the scoring clause itself as the query, with no bool
\* query, no filter and no should.
C8_BoolWhereFiltered ==
  query # Nil =>
    /\ entry \in BoolEntries => BoolShaped
    /\ entry \notin BoolEntries => DOMAIN doc.query \in ScoringKinds

\* C8 witness: the passthrough has compiled a bare query_string document.
C8_Witness ==
  /\ entry = "DoSearchGeneric"
  /\ query # Nil
  /\ DOMAIN doc.query = {"query_string"}

Is2xx(code) == 200 <= code /\ code <= 299

\* the result doSearch must return when `ok` tells the successful statuses
ExecutorMapping(ok(_)) ==
  pc = "done" /\ guard # "rejected" =>
    /\ b = Nil => ret[1].err = SerializationError /\ sent = <<>>
    /\ searchErr # Nil => ret[1].err = TransportError(searchErr[1])
    /\ res # Nil /\ ~ok(res[1].StatusCode)
         => ret[1].err = BackendError(res[1].StatusCode)
    /\ res # Nil /\ ok(res[1].StatusCode) /\ ~res[1].decodable
         => ret[1].err = DecodeError
    /\ ret[1].resp # Nil
         <=> res # Nil /\ ok(res[1].StatusCode) /\ res[1].decodable
    /\ ret[1].resp # Nil => ret[1].err = NoError
    /\ ret[1].resp = Nil => ret[1].err # NoError

\* C9 as stated: serialization failure, transport failure, a non-2xx status,
\* an undecodable 2xx body and a decodable 2xx body each map to their result;
\* only the last yields a response, and never with an error.
C9_Non2xxIsBackendError == ExecutorMapping(Is2xx)

NotAbove299(code) == code <= 299

\* C9 amended: the status that yields a backend error is any status above
\* 299; a response with a status of 299 or less (2xx, and also 1xx such as
\* 101) is decoded, and yields a response when its body decodes.
C9_Above299IsBackendError == ExecutorMapping(NotAbove299)

\* C9 witness: a 101 response with a decodable body was returned as a result.
C9_Witness ==
  /\ pc = "done"
  /\ res # Nil
  /\ res[1].StatusCode = 101
  /\ ret[1].resp # Nil

\* C10: a call submits at most one request to the backend whatever the
\* outcome, none when serialization failed, and exactly one when it has
\* returned after serializing its document.
C10_SingleShot ==
  /\ Len(sent) <= 1
  /\ b = Nil => sent = <<>>
  /\ pc = "done" /\ b # Nil => Len(sent) = 1 /\ sent[1] = b[1]

\* C10 witness: a call has returned a transport error after one request.
C10_Witness ==
  /\ pc = "done"
  /\ searchErr # Nil
  /\ Len(sent) = 1

====
